---- MODULE Spec2Model ----
(***************************************************************************)
(* Bullet Train multi-tenant MCP server: per-request credential isolation  *)
(* (request-context.ts, auth-provider.ts), the downstream call wrapper     *)
(* that consumes the AuthProvider interface, and the OAuth relay handlers  *)
(* of the example server.                                                  *)
(*                                                                         *)
(* Strings are sequences of one-character strings, so that concatenation,  *)
(* prefix tests and substring are the code's operations.  The JavaScript   *)
(* value undefined is the one-element sequence <<"undefined">>, which no   *)
(* string equals because its element is not a single character.            *)
(***************************************************************************)
EXTENDS Integers, Sequences, FiniteSets, TLC

(* ---------------- bounds ---------------- *)
NumReqs == 2
NumOAuth == 1

Reqs == 1..NumReqs
OReqs == 1..NumOAuth

(* ---------------- JavaScript values ---------------- *)
undefined == <<"undefined">>
EmptyStr == <<>>

\* x === undefined
IsUndefined(x) == x = undefined
\* !x for a string-or-undefined x
Falsy(x) == x = undefined \/ x = EmptyStr

\* x || d
OrElse(x, d) == IF Falsy(x) THEN d ELSE x

StartsWith(s, p) == Len(s) >= Len(p) /\ SubSeq(s, 1, Len(p)) = p
Substring(s, n) == SubSeq(s, n + 1, Len(s))

(* ---------------- string literals ---------------- *)
sAuthorization == <<"A","u","t","h","o","r","i","z","a","t","i","o","n">>
sBearerSp == <<"B","e","a","r","e","r"," ">>
sBasicSp == <<"B","a","s","i","c"," ">>
sXApiKey == <<"X","-","A","p","i","-","K","e","y">>

T1 == <<"t","1">>
T2 == <<"t","2">>
Tokens == {T1, T2}

\* takes the credential of a Basic header for a token as well
ExtractBearer_anyScheme(h) ==
  IF h # undefined /\ StartsWith(h, sBearerSp) THEN Substring(h, Len(sBearerSp))
  ELSE IF h # undefined /\ StartsWith(h, sBasicSp) THEN Substring(h, Len(sBasicSp))
  ELSE undefined

\* Credential extractor: the token of a "Bearer <token>" header, else absent.
ExtractBearer(h) ==
  IF h # undefined /\ StartsWith(h, sBearerSp) THEN Substring(h, Len(sBearerSp))
  ELSE undefined

(* ---------------- request context store (AsyncLocalStorage) ---------------- *)
\* A RequestContext object; owner stands for the object's identity.
Context(r, tok) == [owner |-> r, bearerToken |-> tok]
\* What getStore() yields when no run extent encloses the caller.
NoStore == [owner |-> 0, bearerToken |-> undefined]
\* The pseudo-extent of code that runs outside every run() callback.
Outside == 0

VARIABLES provider, staticHeaders, als, mcp, outside, lateLookup, oauth
vars == <<provider, staticHeaders, als, mcp, outside, lateLookup, oauth>>

\* The context the transport creates for request r from its inbound header.
OwnContext(r) == Context(r, ExtractBearer(mcp[r].auth))

\* requestContext.getStore() called from code running in extent e: an extent
\* without a store of its own is handed the context left over from a
\* request that has completed.
getStore_stale(e) ==
  IF e \in Reqs /\ als[e] # NoStore THEN als[e]
  ELSE IF \E q \in Reqs \ {e} : mcp[q].pc = "done"
    THEN OwnContext(CHOOSE q \in Reqs \ {e} : mcp[q].pc = "done")
    ELSE NoStore

\* requestContext.getStore() called from code running in extent e: one
\* process-wide slot for whichever request is still active (a module-level
\* variable in place of the AsyncLocalStorage).
getStore_shared(e) ==
  IF \E q \in Reqs : als[q] # NoStore
    THEN als[CHOOSE q \in Reqs : als[q] # NoStore /\ \A p \in Reqs : als[p] # NoStore => q <= p]
    ELSE NoStore

\* requestContext.getStore() called from code running in extent e.
getStore(e) == IF e \in Reqs THEN als[e] ELSE NoStore

\* context?.bearerToken
BearerTokenOf(context) == IF context = NoStore THEN undefined ELSE context.bearerToken

(* ---------------- auth providers ---------------- *)
\* Results of an async call: a value or a thrown error.
Ok(h) == [ok |-> TRUE, headers |-> h, error |-> "none"]
Throw(e) == [ok |-> FALSE, headers |-> {}, error |-> e]
NoResult == [ok |-> FALSE, headers |-> {}, error |-> "not called"]

\* A header map is a set of <<name, value>> pairs.
BearerHeaders(token) == {<<sAuthorization, sBearerSp \o token>>}

StaticGetAuthHeaders == Ok(staticHeaders)

\* this.headers after the caller added entry to a map getAuthHeaders()
\* returned to it: the provider handed out its own map
StaticHeadersAfterWrite_shared(entry) == staticHeaders \cup {entry}

\* { ...this.headers } is a new object: a write to it does not reach
\* this.headers.
StaticHeadersAfterWrite(entry) == staticHeaders

\* answers that the failed call may be retried
StaticHandleAuthError_retry(error) == TRUE
StaticHandleAuthError(error) == FALSE

\* the guard tests token === undefined instead of !token
BearerGetAuthHeaders_undefOnly(e) ==
  LET context == getStore(e)
      token == BearerTokenOf(context)
  IN  IF IsUndefined(token) THEN Throw("CredentialUnavailable")
      ELSE Ok(BearerHeaders(token))

\* sends the token without the Bearer scheme
BearerGetAuthHeaders_noScheme(e) ==
  LET context == getStore(e)
      token == BearerTokenOf(context)
  IN  IF Falsy(token) THEN Throw("CredentialUnavailable")
      ELSE Ok({<<sAuthorization, token>>})

BearerGetAuthHeaders(e) ==
  LET context == getStore(e)
      token == BearerTokenOf(context)
  IN  IF Falsy(token) THEN Throw("CredentialUnavailable")
      ELSE Ok(BearerHeaders(token))

BearerHandleAuthError(error) == FALSE

\* The store after a provider method ran in extent e: the context-bound
\* provider clears the token once it has read it
StoreAfterProviderCall_consumed(e) ==
  IF provider = "bearer" /\ e \in Reqs THEN [als EXCEPT ![e].bearerToken = undefined]
  ELSE als

\* The store after a provider method ran in extent e: no method of either
\* provider assigns to the store or to the context in it.
StoreAfterProviderCall(e) == als

(* ---------------- downstream responses ---------------- *)
\* An HTTP response of the downstream API, or a transport failure (an
\* AxiosError without a response).
Response(st, body) == [kind |-> "response", status |-> st, body |-> body]
TransportFailure == [kind |-> "transport", status |-> 0, body |-> "none"]
NoResponse == [kind |-> "none", status |-> 0, body |-> "none"]

ApiResponses ==
  { Response(200, "data"), Response(401, "unauthorized"), Response(403, "forbidden"),
    Response(500, "internal error"), TransportFailure }
\* The responses the combined server model draws from.
ServerApiResponses == { Response(200, "data"), Response(401, "unauthorized"), TransportFailure }

IsSuccess(resp) == resp.kind = "response" /\ resp.status >= 200 /\ resp.status < 300

\* takes every failed response for an authentication failure
isAuthError_anyStatus(error) == error.kind = "response"

\* error.response?.status === 401 || error.response?.status === 403
isAuthError(error) ==
  error.kind = "response" /\ (error.status = 401 \/ error.status = 403)

(* ---------------- provider dispatch ---------------- *)
\* The two providers the package ships.
Providers == {"static", "bearer"}

\* Some other implementation of the AuthProvider interface: it holds a
\* credential of its own and may ask for a retry after a rejection.
CustomGetAuthHeaders == Ok(BearerHeaders(T2))
CustomHandleAuthErrorResults(error) == BOOLEAN

\* The results provider.getAuthHeaders() can have when called in extent e.
GetAuthHeadersResults(e) ==
  CASE provider = "static" -> {StaticGetAuthHeaders}
    [] provider = "bearer" -> {BearerGetAuthHeaders(e)}
    [] OTHER -> {CustomGetAuthHeaders}

\* The results provider.handleAuthError(error) can have.
HandleAuthErrorResults(error) ==
  CASE provider = "static" -> {StaticHandleAuthError(error)}
    [] provider = "bearer" -> {BearerHandleAuthError(error)}
    [] OTHER -> CustomHandleAuthErrorResults(error)

\* The store a provider's getAuthHeaders reads in extent e (only the
\* context-bound provider calls getStore).
StoreRead(e, prev) == IF provider = "bearer" THEN getStore(e) ELSE prev

(* ---------------- MCP request handling ---------------- *)
\* Authorization headers an inbound MCP request may carry.
InboundAuth ==
  { undefined, sBearerSp \o T1, sBearerSp \o T2, sBearerSp, sBasicSp \o T1 }
\* The headers the combined server model and the custom-provider model draw from.
ServerInboundAuth == { undefined, sBearerSp \o T1, sBearerSp \o T2 }
CallerInboundAuth == { undefined, sBearerSp \o T1 }
CustomInboundAuth == { undefined, sBearerSp \o T1 }

NoOutcome == [kind |-> "none", error |-> "none", resp |-> NoResponse]
Succeeded(resp) == [kind |-> "ok", error |-> "none", resp |-> resp]
Failed(e, resp) == [kind |-> "error", error |-> e, resp |-> resp]

IdleRequest ==
  [ pc |-> "idle", auth |-> undefined, seen |-> NoStore,
    res |-> NoResult, gets |-> 0, sent |-> <<>>, resp |-> NoResponse,
    hae |-> <<>>, outcome |-> NoOutcome, probe |-> NoResult ]

\* requestContext.run(context, handle): context is the store of extent r
\* while the handling of r lasts, and of no extent once it has ended.
EnterRun(r, context) == [als EXCEPT ![r] = context]

\* leaves the context in place when the handling has ended
ExitRun_kept(r) == als

ExitRun(r) == [als EXCEPT ![r] = NoStore]

\* The transport receives request r, extracts the credential and runs the
\* handling inside requestContext.run(context, ...).
Receive(r, h) ==
  /\ mcp[r].pc = "idle"
  /\ mcp' = [mcp EXCEPT ![r].pc = "handling", ![r].auth = h]
  /\ als' = EnterRun(r, Context(r, ExtractBearer(h)))
  /\ UNCHANGED <<provider, staticHeaders, outside, lateLookup, oauth>>

\* The request is answered without any downstream call; its extent ends.
RespondLocally(r) ==
  /\ mcp[r].pc = "handling"
  /\ mcp[r].gets = 0
  /\ mcp' = [mcp EXCEPT ![r].pc = "done", ![r].outcome = Succeeded(NoResponse)]
  /\ als' = ExitRun(r)
  /\ UNCHANGED <<provider, staticHeaders, outside, lateLookup, oauth>>

\* History: a getStore() call from extent e happens after the extent of
\* another request has ended.
LooksUpLate(e) == provider = "bearer" /\ \E q \in Reqs \ {e} : mcp[q].pc = "done"

\* Downstream call wrapper, first half: resolve the headers through the
\* provider; a failure ends the request without a downstream call.
ResolveHeaders(r) ==
  /\ mcp[r].pc = "handling"
  /\ \E res \in GetAuthHeadersResults(r) :
       /\ mcp' = [mcp EXCEPT
                    ![r].res = res,
                    ![r].gets = @ + 1,
                    ![r].seen = StoreRead(r, @),
                    ![r].pc = IF res.ok THEN "resolved" ELSE "done",
                    ![r].outcome = IF res.ok THEN @ ELSE Failed(res.error, NoResponse)]
       /\ als' = IF res.ok THEN StoreAfterProviderCall(r) ELSE ExitRun(r)
  /\ lateLookup' = (lateLookup \/ LooksUpLate(r))
  /\ UNCHANGED <<provider, staticHeaders, outside, oauth>>

\* Downstream call wrapper, second half: issue the call with the headers.
IssueCall(r) ==
  /\ mcp[r].pc = "resolved"
  /\ mcp' = [mcp EXCEPT ![r].pc = "awaiting", ![r].sent = Append(@, mcp[r].res.headers)]
  /\ UNCHANGED <<provider, staticHeaders, als, outside, lateLookup, oauth>>

\* consults the provider again when the retry is rejected too
MayRetry_again(r, resp) == isAuthError(resp)

\* The wrapper consults the provider only for an authentication failure of
\* the first attempt.
MayRetry(r, resp) == isAuthError(resp) /\ Len(mcp[r].hae) = 0

\* retries although the provider answered that it cannot recover
WrapperRetries_always(again) == TRUE

\* The wrapper retries exactly when handleAuthError resolved to true.
WrapperRetries(again) == again

\* The downstream call of r settles with resp.
CallSettles(r, resp) ==
  /\ mcp[r].pc = "awaiting"
  /\ IF IsSuccess(resp)
       THEN /\ mcp' = [mcp EXCEPT ![r].pc = "done", ![r].resp = resp,
                                  ![r].outcome = Succeeded(resp)]
            /\ als' = ExitRun(r)
       ELSE IF MayRetry(r, resp)
         THEN \E again \in HandleAuthErrorResults(resp) :
                IF WrapperRetries(again)
                  THEN /\ mcp' = [mcp EXCEPT ![r].pc = "handling", ![r].resp = resp,
                                             ![r].hae = Append(@, again)]
                       /\ als' = StoreAfterProviderCall(r)
                  ELSE /\ mcp' = [mcp EXCEPT ![r].pc = "done", ![r].resp = resp,
                                             ![r].hae = Append(@, again),
                                             ![r].outcome = Failed("downstream", resp)]
                       /\ als' = ExitRun(r)
         ELSE /\ mcp' = [mcp EXCEPT ![r].pc = "done", ![r].resp = resp,
                                    ![r].outcome = Failed("downstream", resp)]
              /\ als' = ExitRun(r)
  /\ UNCHANGED <<provider, staticHeaders, outside, lateLookup, oauth>>

\* Code outside every run extent asks the provider for headers.
NotLooked == [called |-> FALSE, seen |-> NoStore, res |-> NoResult]
OutsideGetAuthHeaders ==
  /\ \E res \in GetAuthHeadersResults(Outside) :
       outside' = [called |-> TRUE, seen |-> StoreRead(Outside, NoStore), res |-> res]
  /\ als' = StoreAfterProviderCall(Outside)
  /\ lateLookup' = (lateLookup \/ LooksUpLate(Outside))
  /\ UNCHANGED <<provider, staticHeaders, mcp, oauth>>

\* Code handling request r asks the provider for headers once more; probe
\* is the result of the latest such call since r last wrote to a map it got.
GetAuthHeadersAgain(r) ==
  /\ mcp[r].pc \in {"handling", "resolved", "awaiting"}
  /\ \E res \in GetAuthHeadersResults(r) : mcp' = [mcp EXCEPT ![r].probe = res]
  /\ als' = StoreAfterProviderCall(r)
  /\ lateLookup' = (lateLookup \/ LooksUpLate(r))
  /\ UNCHANGED <<provider, staticHeaders, outside, oauth>>

\* Code handling request r adds an entry to the map getAuthHeaders() of the
\* static provider returned to it, before the call is issued with that map.
sXTrace == <<"X","-","T","r","a","c","e">>
AddedEntry == <<sXTrace, T2>>
WriteReturned(r) ==
  /\ provider = "static"
  /\ mcp[r].pc = "resolved"
  /\ AddedEntry \notin mcp[r].res.headers
  /\ mcp' = [mcp EXCEPT ![r].res.headers = @ \cup {AddedEntry}, ![r].probe = NoResult]
  /\ staticHeaders' = StaticHeadersAfterWrite(AddedEntry)
  /\ UNCHANGED <<provider, als, outside, lateLookup, oauth>>

(* ---------------- OAuth relay ---------------- *)
sAuthorizationCode ==
  <<"a","u","t","h","o","r","i","z","a","t","i","o","n","_","c","o","d","e">>
sClientCredentials ==
  <<"c","l","i","e","n","t","_","c","r","e","d","e","n","t","i","a","l","s">>
sCode == <<"c","o","d","e">>
sToken == <<"t","o","k","e","n">>
sAbc == <<"a","b","c">>
sHttpsX == <<"h","t","t","p","s",":","/","/","x">>
sId == <<"i","d">>
sSec == <<"s","e","c">>
sSt == <<"s","&","1">>
sPw == <<"p","&","=","%">>
kGrantType == <<"g","r","a","n","t","_","t","y","p","e">>
kCode == sCode
kRedirectUri == <<"r","e","d","i","r","e","c","t","_","u","r","i">>
kClientId == <<"c","l","i","e","n","t","_","i","d">>
kClientSecret == <<"c","l","i","e","n","t","_","s","e","c","r","e","t">>

Unreserved ==
  { "a","b","c","d","e","f","g","h","i","j","k","l","m","n","o","p","q","r","s","t",
    "u","v","w","x","y","z","0","1","2","3","4","5","6","7","8","9","-","_",".","!",
    "~","*","'","(",")" }

PercentCode(c) ==
  CASE c = ":" -> <<"%","3","A">>
    [] c = "/" -> <<"%","2","F">>
    [] c = "&" -> <<"%","2","6">>
    [] c = "=" -> <<"%","3","D">>
    [] c = " " -> <<"%","2","0">>
    [] OTHER   -> <<"%","2","5">>

RECURSIVE encodeURIComponent(_)
encodeURIComponent(str) ==
  IF str = <<>> THEN <<>>
  ELSE (IF Head(str) \in Unreserved THEN <<Head(str)>> ELSE PercentCode(Head(str)))
       \o encodeURIComponent(Tail(str))

\* One inbound OAuth request: the query of GET /oauth/authorize or the body
\* of POST /oauth/token (fields not sent are undefined).
OAuthInput(gt, code, ru, cid, cs, st, rt) ==
  [ grant_type |-> gt, code |-> code, redirect_uri |-> ru, client_id |-> cid,
    client_secret |-> cs, state |-> st, response_type |-> rt ]
NoInput ==
  OAuthInput(undefined, undefined, undefined, undefined, undefined, undefined, undefined)

AuthorizeQueries ==
  { OAuthInput(undefined, undefined, ru, cid, undefined, st, rt) :
      ru \in {undefined, EmptyStr, sHttpsX}, cid \in {undefined, EmptyStr, sId},
      st \in {undefined, EmptyStr, sSt}, rt \in {undefined, EmptyStr, sCode, sToken} }

TokenBodies ==
  { OAuthInput(gt, code, ru, cid, cs, undefined, undefined) :
      gt \in {undefined, sAuthorizationCode, sClientCredentials},
      code \in {undefined, EmptyStr, sAbc}, ru \in {undefined, EmptyStr, sHttpsX},
      cid \in {undefined, EmptyStr, sId}, cs \in {undefined, EmptyStr, sSec, sPw} }

\* The inputs the combined server model draws from.
ServerQueries ==
  { OAuthInput(undefined, undefined, sHttpsX, sId, undefined, st, undefined) :
      st \in {undefined, sSt} }
ServerBodies ==
  { OAuthInput(sAuthorizationCode, code, sHttpsX, sId, sSec, undefined, undefined) :
      code \in {undefined, sAbc} }

\* Bodies on the wire.  quoted marks a body that is the JSON string literal
\* of value rather than value itself.
Json(v) == [type |-> "json", value |-> v, quoted |-> FALSE]
Text(v) == [type |-> "text", value |-> v, quoted |-> FALSE]
NoBody == [type |-> "none", value |-> "none", quoted |-> FALSE]

TokenResponses ==
  { Response(200, Json("access_token")), Response(201, Json("access_token")),
    Response(400, Json("invalid_grant")), Response(401, Json("invalid_client")),
    Response(502, Text("Bad Gateway")),
    [kind |-> "transport", status |-> 0, body |-> NoBody] }

ServerTokenResponses ==
  { Response(200, Json("access_token")), Response(400, Json("invalid_grant")),
    [kind |-> "transport", status |-> 0, body |-> NoBody] }

\* axios resolves for 2xx and rejects otherwise (default validateStatus).
AxiosResolves(resp) == resp.kind = "response" /\ resp.status >= 200 /\ resp.status < 300

\* response.data: a JSON body parsed, any other body as a string.
AxiosData(body) ==
  [js |-> IF body.type = "json" THEN "object" ELSE "string", value |-> body.value]

\* res.json(data): JSON.stringify(data) with content type application/json.
JsonStringify(data) ==
  [type |-> "json", value |-> data.value, quoted |-> data.js = "string"]

Reply(st, body) == [status |-> st, body |-> body, location |-> {}]
Redirect(params) == [status |-> 302, body |-> NoBody, location |-> params]

IdleOAuth ==
  [ pc |-> "idle", route |-> "none", input |-> NoInput, fwd |-> <<>>,
    down |-> [kind |-> "none", status |-> 0, body |-> NoBody], replies |-> <<>> ]

\* the validation forgets state
AuthorizeReply_noState(q) ==
  IF Falsy(q.client_id) \/ Falsy(q.redirect_uri)
    THEN Reply(400, Json("invalid_request"))
    ELSE Redirect({ <<"client_id", q.client_id>>,
                    <<"redirect_uri", q.redirect_uri>>,
                    <<"state", q.state>>,
                    <<"response_type", OrElse(q.response_type, sCode)>> })

\* response_type is always sent as code
AuthorizeReply_fixedType(q) ==
  IF Falsy(q.client_id) \/ Falsy(q.redirect_uri) \/ Falsy(q.state)
    THEN Reply(400, Json("invalid_request"))
    ELSE Redirect({ <<"client_id", q.client_id>>,
                    <<"redirect_uri", q.redirect_uri>>,
                    <<"state", q.state>>,
                    <<"response_type", sCode>> })

\* GET /oauth/authorize
AuthorizeReply(q) ==
  IF Falsy(q.client_id) \/ Falsy(q.redirect_uri) \/ Falsy(q.state)
    THEN Reply(400, Json("invalid_request"))
    ELSE Redirect({ <<"client_id", q.client_id>>,
                    <<"redirect_uri", q.redirect_uri>>,
                    <<"state", q.state>>,
                    <<"response_type", OrElse(q.response_type, sCode)>> })

Authorize(o, q) ==
  /\ oauth[o].pc = "idle"
  /\ oauth' = [oauth EXCEPT ![o].pc = "done", ![o].route = "authorize", ![o].input = q,
                            ![o].replies = Append(@, AuthorizeReply(q))]
  /\ UNCHANGED <<provider, staticHeaders, als, mcp, outside, lateLookup>>

\* the validation forgets the authorization code
TokenInvalid_noCode(b) == Falsy(b.client_id) \/ Falsy(b.client_secret)

\* POST /oauth/token: validation
TokenInvalid(b) ==
  \/ Falsy(b.client_id) \/ Falsy(b.client_secret)
  \/ (b.grant_type = sAuthorizationCode /\ Falsy(b.code))

\* transformRequest: key=value pairs joined by &
\* writes the value as it came
FormField_raw(key, v) == encodeURIComponent(key) \o <<"=">> \o OrElse(v, EmptyStr)

FormField(key, v) == encodeURIComponent(key) \o <<"=">> \o encodeURIComponent(OrElse(v, EmptyStr))
FormBody(b) ==
  FormField(kGrantType, b.grant_type) \o <<"&">> \o FormField(kCode, b.code) \o <<"&">>
  \o FormField(kRedirectUri, b.redirect_uri) \o <<"&">>
  \o FormField(kClientId, b.client_id) \o <<"&">>
  \o FormField(kClientSecret, b.client_secret)

\* POST /oauth/token up to the await of axios.post
Token(o, b) ==
  /\ oauth[o].pc = "idle"
  /\ oauth' = IF TokenInvalid(b)
       THEN [oauth EXCEPT ![o].pc = "done", ![o].route = "token", ![o].input = b,
                          ![o].replies = Append(@, Reply(400, Json("invalid_request")))]
       ELSE [oauth EXCEPT ![o].pc = "forwarded", ![o].route = "token", ![o].input = b,
                          ![o].fwd = Append(@, FormBody(b))]
  /\ UNCHANGED <<provider, staticHeaders, als, mcp, outside, lateLookup>>

\* answers 502 when the token endpoint could not be reached
TokenReply_badGateway(resp) ==
  IF AxiosResolves(resp) THEN Reply(200, JsonStringify(AxiosData(resp.body)))
  ELSE IF resp.kind = "response"
    THEN Reply(resp.status, JsonStringify(AxiosData(resp.body)))
    ELSE Reply(502, Json("bad_gateway"))

\* POST /oauth/token after axios.post settled with resp
TokenReply(resp) ==
  IF AxiosResolves(resp) THEN Reply(200, JsonStringify(AxiosData(resp.body)))
  ELSE IF resp.kind = "response"
    THEN Reply(resp.status, JsonStringify(AxiosData(resp.body)))
    ELSE Reply(500, Json("server_error"))

TokenSettles(o, resp) ==
  /\ oauth[o].pc = "forwarded"
  /\ oauth' = [oauth EXCEPT ![o].pc = "done", ![o].down = resp,
                            ![o].replies = Append(@, TokenReply(resp))]
  /\ UNCHANGED <<provider, staticHeaders, als, mcp, outside, lateLookup>>

(* ---------------- specifications ---------------- *)
StaticHeaderChoices == { {}, {<<sXApiKey, T1>>} }

InitCommon ==
  /\ als = [r \in Reqs |-> NoStore]
  /\ mcp = [r \in Reqs |-> IdleRequest]
  /\ outside = NotLooked
  /\ lateLookup = FALSE
  /\ oauth = [o \in OReqs |-> IdleOAuth]

\* Any AuthProvider configured at construction.
Init ==
  /\ provider \in Providers
  /\ staticHeaders \in (IF provider = "static" THEN StaticHeaderChoices ELSE {{}})
  /\ InitCommon

\* The example server: new BearerTokenAuthProvider().
InitServer ==
  /\ provider = "bearer"
  /\ staticHeaders = {}
  /\ InitCommon

\* A server configured with another AuthProvider implementation.
InitCustom ==
  /\ provider = "custom"
  /\ staticHeaders = {}
  /\ InitCommon

Next ==
  \/ \E r \in Reqs, h \in InboundAuth : Receive(r, h)
  \/ \E r \in Reqs : RespondLocally(r)
  \/ \E r \in Reqs : ResolveHeaders(r)
  \/ \E r \in Reqs : IssueCall(r)
  \/ \E r \in Reqs, resp \in ApiResponses : CallSettles(r, resp)
  \/ OutsideGetAuthHeaders

\* Handling code that calls the provider more than once and writes to the
\* maps it gets.
NextCaller ==
  \/ \E r \in Reqs, h \in CallerInboundAuth : Receive(r, h)
  \/ \E r \in Reqs : RespondLocally(r)
  \/ \E r \in Reqs : ResolveHeaders(r)
  \/ \E r \in Reqs : IssueCall(r)
  \/ \E r \in Reqs, resp \in ServerApiResponses : CallSettles(r, resp)
  \/ OutsideGetAuthHeaders
  \/ \E r \in Reqs : GetAuthHeadersAgain(r)
  \/ \E r \in Reqs : WriteReturned(r)

NextCustom ==
  \/ \E r \in Reqs, h \in CustomInboundAuth : Receive(r, h)
  \/ \E r \in Reqs : RespondLocally(r)
  \/ \E r \in Reqs : ResolveHeaders(r)
  \/ \E r \in Reqs : IssueCall(r)
  \/ \E r \in Reqs, resp \in ApiResponses : CallSettles(r, resp)

NextOAuth ==
  \/ \E o \in OReqs, q \in AuthorizeQueries : Authorize(o, q)
  \/ \E o \in OReqs, b \in TokenBodies : Token(o, b)
  \/ \E o \in OReqs, resp \in TokenResponses : TokenSettles(o, resp)

NextServer ==
  \/ \E r \in Reqs, h \in ServerInboundAuth : Receive(r, h)
  \/ \E r \in Reqs : RespondLocally(r)
  \/ \E r \in Reqs : ResolveHeaders(r)
  \/ \E r \in Reqs : IssueCall(r)
  \/ \E r \in Reqs, resp \in ServerApiResponses : CallSettles(r, resp)
  \/ \E o \in OReqs, q \in ServerQueries : Authorize(o, q)
  \/ \E o \in OReqs, b \in ServerBodies : Token(o, b)
  \/ \E o \in OReqs, resp \in ServerTokenResponses : TokenSettles(o, resp)

Spec == Init /\ [][Next]_vars
SpecCustom == InitCustom /\ [][NextCustom]_vars
SpecCaller == Init /\ [][NextCaller]_vars
SpecOAuth == InitServer /\ [][NextOAuth]_vars
SpecServer == InitServer /\ [][NextServer]_vars

(* ---------------- properties ---------------- *)
\* a string value that is absent or empty
Missing(x) == x = undefined \/ x = EmptyStr
\* a string value that is absent
Absent(x) == x = undefined

\* C1 (isolation): under the context-bound provider, whatever the
\* interleaving of the requests, every getAuthHeaders() call of a request
\* whose context holds token T returns exactly {Authorization: "Bearer T"},
\* every downstream call of the request carries that map, and the map is
\* never the one built from a different token of another request.
C1_Isolation ==
  provider = "bearer" =>
    \A r \in Reqs :
      LET T == OwnContext(r).bearerToken
          own == {<<sAuthorization, sBearerSp \o T>>}
      IN  (mcp[r].gets > 0 /\ T \in Tokens) =>
            /\ mcp[r].res.ok
            /\ mcp[r].res.headers = own
            /\ \A i \in 1..Len(mcp[r].sent) : mcp[r].sent[i] = own
            /\ \A q \in Reqs \ {r} :
                 LET U == OwnContext(q).bearerToken
                 IN  (mcp[q].pc # "idle" /\ U \in Tokens /\ U # T) =>
                       mcp[r].res.headers # {<<sAuthorization, sBearerSp \o U>>}

\* Two requests with distinct tokens are in flight together and each has
\* resolved its headers and issued its downstream call.
C1_Witness ==
  /\ provider = "bearer"
  /\ \E r, q \in Reqs :
       /\ r # q
       /\ mcp[r].pc = "awaiting" /\ mcp[q].pc = "awaiting"
       /\ OwnContext(r).bearerToken = T1 /\ OwnContext(q).bearerToken = T2
       /\ mcp[r].res.ok /\ mcp[q].res.ok

\* C2 (fail-fast): a getAuthHeaders() call of the context-bound provider that
\* finds no active context, a context without bearerToken or one whose
\* bearerToken is the empty string fails with CredentialUnavailable, and the
\* request issues no downstream call.
C2_FailFast ==
  provider = "bearer" =>
    /\ \A r \in Reqs :
         (mcp[r].gets > 0 /\ Missing(BearerTokenOf(mcp[r].seen))) =>
           /\ ~mcp[r].res.ok
           /\ mcp[r].res.error = "CredentialUnavailable"
           /\ mcp[r].res.headers = {}
           /\ Len(mcp[r].sent) = 0
           /\ mcp[r].pc = "done"
           /\ mcp[r].outcome.kind = "error"
           /\ mcp[r].outcome.error = "CredentialUnavailable"
    /\ outside.called =>
         /\ outside.seen = NoStore
         /\ ~outside.res.ok
         /\ outside.res.error = "CredentialUnavailable"

\* All three cases have happened: a call outside every context, a call under
\* a context with an empty token and one under a context without a token.
C2_Witness ==
  /\ provider = "bearer"
  /\ outside.called
  /\ \E r, q \in Reqs :
       /\ mcp[r].gets > 0 /\ mcp[r].seen = Context(r, EmptyStr)
       /\ mcp[q].gets > 0 /\ mcp[q].seen = Context(q, undefined)

\* C3 (no retry on exhausted auth): when the downstream call of a request
\* failed with 401 or 403 and handleAuthError answered false, the wrapper has
\* issued exactly one downstream call and the request ends with that failure,
\* status and body unchanged.
C3_NoRetryOnExhaustedAuth ==
  \A r \in Reqs :
    (mcp[r].resp.status \in {401, 403}
       /\ mcp[r].hae # <<>> /\ mcp[r].hae[Len(mcp[r].hae)] = FALSE) =>
      /\ Len(mcp[r].sent) = 1
      /\ mcp[r].pc = "done"
      /\ mcp[r].outcome.kind = "error"
      /\ mcp[r].outcome.resp.status = mcp[r].resp.status
      /\ mcp[r].outcome.resp.body = mcp[r].resp.body

\* A 403 was answered with false by the provider and the request is over.
C3_Witness ==
  \E r \in Reqs :
    /\ mcp[r].hae = <<FALSE>>
    /\ mcp[r].resp = Response(403, "forbidden")
    /\ mcp[r].pc = "done"

\* C4 (shipped providers never retry): handleAuthError of the static and of
\* the context-bound provider answers false for every failure, and under
\* either provider no request ever has more than one downstream call.
C4_ShippedProvidersNeverRetry ==
  /\ \A error \in ApiResponses :
       /\ StaticHandleAuthError(error) = FALSE
       /\ BearerHandleAuthError(error) = FALSE
  /\ provider \in Providers
  /\ \A r \in Reqs :
       /\ \A i \in 1..Len(mcp[r].hae) : mcp[r].hae[i] = FALSE
       /\ Len(mcp[r].sent) <= 1
       /\ mcp[r].gets <= 1

\* Under the static provider a request met a 401, the provider was consulted
\* and the request is over after its single call.
C4_Witness ==
  /\ provider = "static"
  /\ \E r \in Reqs :
       /\ mcp[r].resp = Response(401, "unauthorized")
       /\ Len(mcp[r].hae) = 1
       /\ mcp[r].pc = "done"

\* C5 (context teardown): a lookup made outside every run extent yields no
\* context, a request whose extent has ended has no store left, and no lookup
\* made by another request or from outside yields the context of a request
\* whose extent has ended.
C5_ContextTeardown ==
  /\ outside.seen = NoStore
  /\ \A r \in Reqs :
       mcp[r].pc = "done" =>
         /\ als[r] = NoStore
         /\ outside.seen.owner # r
         /\ \A e \in Reqs \ {r} : mcp[e].seen.owner # r
  /\ \A e \in Reqs : mcp[e].seen.owner \in {0, e}

\* A request that held a token has ended, and lookups made afterwards, one by
\* another request and one from outside, are on record.
C5_Witness ==
  /\ provider = "bearer"
  /\ lateLookup
  /\ outside.called
  /\ \E r, e \in Reqs :
       /\ r # e
       /\ mcp[r].pc = "done" /\ OwnContext(r).bearerToken \in Tokens
       /\ mcp[e].gets > 0 /\ mcp[e].seen = OwnContext(e)

\* the replies request o of the relay has sent
RepliesOf(o) == oauth[o].replies

\* C6 (failure locality): a step in which one request fails leaves the
\* context, the resolved headers, the outcome and the replies of every other
\* request as they were; and a request whose own header gave no token fails
\* with CredentialUnavailable, whatever tokens the requests handled along
\* with it hold.
C6_McpFails(r) == mcp[r].outcome.kind # "error" /\ mcp'[r].outcome.kind = "error"
C6_OAuthFails(o) ==
  /\ Len(oauth'[o].replies) > Len(oauth[o].replies)
  /\ oauth'[o].replies[Len(oauth'[o].replies)].status >= 400
C6_McpKept(q) ==
  /\ als'[q] = als[q]
  /\ mcp'[q].res = mcp[q].res
  /\ mcp'[q].sent = mcp[q].sent
  /\ mcp'[q].outcome = mcp[q].outcome
  /\ mcp'[q].pc = mcp[q].pc
C6_OAuthKept(p) == oauth'[p] = oauth[p]
C6_NoTokenFails ==
  \A r \in Reqs :
    (mcp[r].gets > 0 /\ Missing(OwnContext(r).bearerToken)) =>
      /\ mcp[r].res = Throw("CredentialUnavailable")
      /\ mcp[r].outcome.kind = "error"
      /\ mcp[r].outcome.error = "CredentialUnavailable"
      /\ Len(mcp[r].sent) = 0
C6_FailureLocality ==
  /\ []C6_NoTokenFails
  /\ [][ /\ \A r \in Reqs : C6_McpFails(r) =>
              /\ \A q \in Reqs \ {r} : C6_McpKept(q)
              /\ \A p \in OReqs : C6_OAuthKept(p)
         /\ \A o \in OReqs : C6_OAuthFails(o) =>
              /\ \A q \in Reqs : C6_McpKept(q)
              /\ \A p \in OReqs \ {o} : C6_OAuthKept(p) ]_vars

\* A request without a token has failed with CredentialUnavailable and a
\* relay request has been rejected, while a request holding a token is still
\* in flight with its own headers.
C6_Witness ==
  \E r, q \in Reqs : \E o \in OReqs :
    /\ r # q
    /\ mcp[r].outcome = Failed("CredentialUnavailable", NoResponse)
    /\ mcp[q].pc = "awaiting" /\ OwnContext(q).bearerToken = T1
    /\ mcp[q].res = Ok({<<sAuthorization, sBearerSp \o T1>>})
    /\ Len(RepliesOf(o)) = 1 /\ RepliesOf(o)[1].status = 400

\* C7 (missing parameter on authorize): an authorize request whose client_id,
\* redirect_uri or state is absent or empty gets the single reply 400
\* invalid_request, without a redirect and without any downstream call.
C7_AuthorizeRejectsMissing ==
  \A o \in OReqs :
    LET q == oauth[o].input IN
    (oauth[o].route = "authorize"
       /\ (Missing(q.client_id) \/ Missing(q.redirect_uri) \/ Missing(q.state))) =>
      /\ Len(RepliesOf(o)) = 1
      /\ RepliesOf(o)[1].status = 400
      /\ RepliesOf(o)[1].body = Json("invalid_request")
      /\ RepliesOf(o)[1].location = {}
      /\ oauth[o].fwd = <<>>
      /\ oauth[o].pc = "done"

\* An authorize request that lacks only state has been answered.
C7_Witness ==
  \E o \in OReqs :
    /\ oauth[o].route = "authorize"
    /\ oauth[o].input.client_id = sId /\ oauth[o].input.redirect_uri = sHttpsX
    /\ oauth[o].input.state = undefined
    /\ Len(RepliesOf(o)) = 1

\* C8 (token relay verbatim), as claimed: whenever the downstream token
\* endpoint answered a forwarded request, the relay's reply has the status
\* and the body of that answer.
C8_TokenRelayVerbatim ==
  \A o \in OReqs :
    (oauth[o].route = "token" /\ oauth[o].pc = "done" /\ oauth[o].down.kind = "response") =>
      /\ Len(RepliesOf(o)) = 1
      /\ RepliesOf(o)[1].status = oauth[o].down.status
      /\ RepliesOf(o)[1].body = oauth[o].down.body

\* C9 (token validation), as claimed: a token request is rejected with 400
\* invalid_request and not forwarded when client_id or client_secret is
\* absent, or grant_type is authorization_code and code is absent; every
\* other request is forwarded exactly once.
C9_Rejected(o) ==
  /\ oauth[o].pc = "done"
  /\ oauth[o].fwd = <<>>
  /\ RepliesOf(o) = <<Reply(400, Json("invalid_request"))>>
C9_Forwarded(o) ==
  /\ Len(oauth[o].fwd) = 1
  /\ \A i \in 1..Len(RepliesOf(o)) :
       RepliesOf(o)[i] # Reply(400, Json("invalid_request"))
C9_AsClaimed ==
  \A o \in OReqs :
    LET b == oauth[o].input IN
    oauth[o].route = "token" =>
      IF Absent(b.client_id) \/ Absent(b.client_secret)
           \/ (b.grant_type = sAuthorizationCode /\ Absent(b.code))
        THEN C9_Rejected(o)
        ELSE C9_Forwarded(o)

\* C9, amended: the same with absent or empty in place of absent.
C9_TokenValidation ==
  \A o \in OReqs :
    LET b == oauth[o].input IN
    oauth[o].route = "token" =>
      IF Missing(b.client_id) \/ Missing(b.client_secret)
           \/ (b.grant_type = sAuthorizationCode /\ Missing(b.code))
        THEN C9_Rejected(o)
        ELSE C9_Forwarded(o)

\* A token request with an empty client_secret has been rejected.
C9_Witness ==
  \E o \in OReqs :
    /\ oauth[o].route = "token"
    /\ oauth[o].input.client_id = sId /\ oauth[o].input.client_secret = EmptyStr
    /\ C9_Rejected(o)

\* C10 (authorize redirect), as claimed: an authorize request with client_id,
\* redirect_uri and state gets a redirect that carries the three values
\* unchanged, and response_type as given, or code when it is absent.
C10_RedirectTo(o, rt) ==
  LET q == oauth[o].input IN
  RepliesOf(o) =
    << [ status |-> 302, body |-> NoBody,
         location |-> { <<"client_id", q.client_id>>, <<"redirect_uri", q.redirect_uri>>,
                        <<"state", q.state>>, <<"response_type", rt>> } ] >>
C10_Complete(o) ==
  LET q == oauth[o].input IN
  /\ oauth[o].route = "authorize"
  /\ ~Missing(q.client_id) /\ ~Missing(q.redirect_uri) /\ ~Missing(q.state)
C10_AsClaimed ==
  \A o \in OReqs :
    C10_Complete(o) =>
      C10_RedirectTo(o, IF Absent(oauth[o].input.response_type) THEN sCode
                        ELSE oauth[o].input.response_type)

\* C10, amended: response_type is the inbound one when that is given and not
\* empty, and code when it is absent or empty.
C10_AuthorizeRedirect ==
  \A o \in OReqs :
    C10_Complete(o) =>
      /\ C10_RedirectTo(o, IF Missing(oauth[o].input.response_type) THEN sCode
                           ELSE oauth[o].input.response_type)
      /\ oauth[o].fwd = <<>>

\* A complete authorize request with response_type token has been redirected.
C10_Witness ==
  \E o \in OReqs :
    /\ C10_Complete(o)
    /\ oauth[o].input.response_type = sToken
    /\ Len(RepliesOf(o)) = 1 /\ RepliesOf(o)[1].status = 302

\* C11 (retry at most once with fresh headers): once handleAuthError has
\* answered true for a 401 or 403, the wrapper calls getAuthHeaders a second
\* time and issues the call a second time with the headers of that second
\* resolution; whatever the second call yields is the outcome of the request,
\* the provider is not consulted again, and no request ever has more than two
\* downstream calls.
C11_RetryAtMostOnce ==
  \A r \in Reqs :
    /\ Len(mcp[r].sent) <= 2
    /\ mcp[r].gets <= 2
    /\ Len(mcp[r].hae) <= 1
    /\ Len(mcp[r].sent) <= mcp[r].gets
    /\ (Len(mcp[r].sent) = 2 \/ mcp[r].gets = 2) => mcp[r].hae = <<TRUE>>
    /\ mcp[r].hae = <<TRUE>> =>
         /\ mcp[r].pc = "handling" =>
              (mcp[r].gets = 1 /\ Len(mcp[r].sent) = 1 /\ mcp[r].resp.status \in {401, 403})
         /\ mcp[r].pc \in {"resolved", "awaiting", "done"} => mcp[r].gets = 2
         /\ mcp[r].pc \in {"awaiting", "done"} =>
              (Len(mcp[r].sent) = 2 /\ mcp[r].sent[2] = mcp[r].res.headers)
         /\ mcp[r].pc = "done" =>
              mcp[r].outcome = (IF mcp[r].resp.status = 200 THEN Succeeded(mcp[r].resp)
                                ELSE Failed("downstream", mcp[r].resp))

\* After a retry the second call was rejected with 401 as well and the
\* request is over after two calls.
C11_Witness ==
  \E r \in Reqs :
    /\ mcp[r].hae = <<TRUE>>
    /\ Len(mcp[r].sent) = 2
    /\ mcp[r].pc = "done"
    /\ mcp[r].resp = Response(401, "unauthorized")

\* C12 (other failures bypass the provider): a failure is an authentication
\* failure exactly when it has a response of status 401 or 403:
\* a first attempt that fails with one of these is put to handleAuthError; a call
\* that settles with any other failure ends the request at once with that
\* failure, without a handleAuthError call and without another downstream
\* call, and handleAuthError is only ever consulted for a 401 or 403.
C12_AuthStatus(resp) == resp.kind = "response" /\ resp.status \in {401, 403}
C12_Settles(r) == mcp[r].pc = "awaiting" /\ mcp'[r].pc # "awaiting"
C12_NonAuthFailuresBypass ==
  [][ \A r \in Reqs :
           /\ (C12_Settles(r) /\ C12_AuthStatus(mcp'[r].resp) /\ Len(mcp[r].sent) = 1) =>
                Len(mcp'[r].hae) = 1
           /\ (C12_Settles(r) /\ ~IsSuccess(mcp'[r].resp) /\ ~C12_AuthStatus(mcp'[r].resp)) =>
                /\ mcp'[r].hae = mcp[r].hae
                /\ mcp'[r].pc = "done"
                /\ mcp'[r].outcome = Failed("downstream", mcp'[r].resp)
                /\ mcp'[r].sent = mcp[r].sent
                /\ mcp'[r].gets = mcp[r].gets
           /\ mcp'[r].hae # mcp[r].hae =>
                (C12_Settles(r) /\ C12_AuthStatus(mcp'[r].resp)) ]_vars

\* One request ended on a 500 and another on a transport failure, each after
\* a single call and without the provider having been consulted.
C12_Witness ==
  \E r, q \in Reqs :
    /\ mcp[r].pc = "done" /\ mcp[r].resp = Response(500, "internal error")
    /\ mcp[r].hae = <<>> /\ Len(mcp[r].sent) = 1
    /\ mcp[q].pc = "done" /\ mcp[q].resp = TransportFailure
    /\ mcp[q].hae = <<>> /\ Len(mcp[q].sent) = 1

\* What a form-urlencoded reader (the downstream token endpoint) makes of a
\* body: the fields in order, each split at its first "=", names and values
\* percent-decoded.
FormPercentChar(code) ==
  CASE code = <<"%","3","A">> -> ":"
    [] code = <<"%","2","F">> -> "/"
    [] code = <<"%","2","6">> -> "&"
    [] code = <<"%","3","D">> -> "="
    [] code = <<"%","2","0">> -> " "
    [] code = <<"%","2","5">> -> "%"
    [] OTHER -> "malformed"
RECURSIVE FormDecode(_)
FormDecode(str) ==
  IF str = <<>> THEN <<>>
  ELSE IF Head(str) # "%" THEN <<Head(str)>> \o FormDecode(Tail(str))
  ELSE IF Len(str) < 3 THEN <<"malformed">>
  ELSE <<FormPercentChar(SubSeq(str, 1, 3))>> \o FormDecode(SubSeq(str, 4, Len(str)))
FormFirst(str, sep) ==
  IF \E i \in 1..Len(str) : str[i] = sep
    THEN CHOOSE i \in 1..Len(str) : str[i] = sep /\ \A j \in 1..(i - 1) : str[j] # sep
    ELSE 0
RECURSIVE FormSplit(_, _)
FormSplit(str, sep) ==
  LET i == FormFirst(str, sep)
  IN  IF i = 0 THEN <<str>>
      ELSE <<SubSeq(str, 1, i - 1)>> \o FormSplit(SubSeq(str, i + 1, Len(str)), sep)
FormPair(field) ==
  LET i == FormFirst(field, "=")
  IN  IF i = 0 THEN <<FormDecode(field), EmptyStr>>
      ELSE <<FormDecode(SubSeq(field, 1, i - 1)), FormDecode(SubSeq(field, i + 1, Len(field)))>>
FormParse(body) ==
  LET fields == FormSplit(body, "&")
  IN  [i \in 1..Len(fields) |-> FormPair(fields[i])]

\* C13 (token forwarding round trip): every POST /oauth/token request that
\* passes validation is forwarded as one form-urlencoded body which, read
\* back by a form decoder, holds exactly the five fields grant_type, code,
\* redirect_uri, client_id and client_secret, each with the value that came
\* in (a field that did not come in is sent empty).
C13_Validated(b) ==
  /\ ~Missing(b.client_id)
  /\ ~Missing(b.client_secret)
  /\ b.grant_type = sAuthorizationCode => ~Missing(b.code)
C13_Sent(v) == IF Absent(v) THEN EmptyStr ELSE v
C13_Fields(b) ==
  << <<kGrantType, C13_Sent(b.grant_type)>>, <<kCode, C13_Sent(b.code)>>,
     <<kRedirectUri, C13_Sent(b.redirect_uri)>>, <<kClientId, C13_Sent(b.client_id)>>,
     <<kClientSecret, C13_Sent(b.client_secret)>> >>
C13_TokenForwardingRoundTrip ==
  \A o \in OReqs :
    (oauth[o].route = "token" /\ C13_Validated(oauth[o].input)) =>
      /\ Len(oauth[o].fwd) = 1
      /\ FormParse(oauth[o].fwd[1]) = C13_Fields(oauth[o].input)

\* The body of the example was forwarded, and so was one whose client_secret
\* holds "&", "=" and "%".
C13_Witness ==
  /\ \E o \in OReqs :
       /\ oauth[o].route = "token" /\ Len(oauth[o].fwd) = 1
       /\ oauth[o].input.client_secret = sPw
  /\ FormParse(FormBody(OAuthInput(sAuthorizationCode, sAbc, sHttpsX, sId, sSec, undefined, undefined)))
       = << <<kGrantType, sAuthorizationCode>>, <<kCode, sAbc>>, <<kRedirectUri, sHttpsX>>,
            <<kClientId, sId>>, <<kClientSecret, sSec>> >>

\* C14 (token relay transport failure): when the forwarded token request
\* gets no HTTP response, the caller gets status 500 with error
\* server_error after the one forwarding attempt; and every token request,
\* however it ends, has been sent exactly one response when it is over and
\* none before.
C14_TransportFailure ==
  \A o \in OReqs :
    oauth[o].route = "token" =>
      /\ Len(oauth[o].fwd) <= 1
      /\ Len(RepliesOf(o)) = (IF oauth[o].pc = "done" THEN 1 ELSE 0)
      /\ oauth[o].down.kind = "transport" =>
           /\ oauth[o].pc = "done"
           /\ Len(oauth[o].fwd) = 1
           /\ RepliesOf(o) = <<Reply(500, Json("server_error"))>>

\* A forwarded token request whose downstream call failed without a response
\* has been answered.
C14_Witness ==
  \E o \in OReqs :
    /\ oauth[o].route = "token"
    /\ oauth[o].down.kind = "transport"
    /\ Len(oauth[o].fwd) = 1
    /\ Len(RepliesOf(o)) = 1

\* C15 (context lifecycle): the requests that have a context are exactly
\* the requests being handled, each of them has a context of its own, and
\* when no request is being handled no context is left.
C15_Active == { r \in Reqs : als[r] # NoStore }
C15_InFlight == { r \in Reqs : mcp[r].pc \in {"handling", "resolved", "awaiting"} }
C15_ContextLifecycle ==
  /\ C15_Active = C15_InFlight
  /\ \A r \in C15_Active : als[r].owner = r
  /\ \A r, q \in C15_Active : als[r].owner = als[q].owner => r = q
  /\ C15_InFlight = {} => Cardinality(C15_Active) = 0

\* One request is being handled and has a context while another has
\* completed and has none.
C15_Witness ==
  \E r, q \in Reqs :
    /\ mcp[r].pc = "awaiting" /\ als[r] = OwnContext(r)
    /\ mcp[q].pc = "done" /\ als[q] = NoStore
    /\ Cardinality(C15_Active) = 1

\* C16 (credential extraction): while a request is being handled its
\* context holds the token t when its Authorization header is "Bearer "
\* followed by t, and no token for any other header or none; the context is
\* written once, at reception and before any handling, and header and
\* context stay as they are until the handling ends; a request without an
\* Authorization header is taken into handling, and a request only fails
\* with CredentialUnavailable after the provider was asked for headers for a
\* downstream call.
C16_Handled(r) == mcp[r].pc \in {"handling", "resolved", "awaiting"}
C16_Extracted ==
  \A r \in Reqs :
    C16_Handled(r) =>
      /\ als[r].owner = r
      /\ \A t \in Tokens \cup {EmptyStr} :
           mcp[r].auth = sBearerSp \o t => als[r].bearerToken = t
      /\ (\A t \in Tokens \cup {EmptyStr} : mcp[r].auth # sBearerSp \o t) =>
           als[r].bearerToken = undefined
C16_FailsOnlyOnCall ==
  \A r \in Reqs :
    /\ (mcp[r].pc = "done" /\ mcp[r].gets = 0) => mcp[r].outcome = Succeeded(NoResponse)
    /\ mcp[r].outcome.error = "CredentialUnavailable" => mcp[r].gets >= 1
C16_ExtractedOnce ==
  \A r \in Reqs :
    /\ als'[r] # als[r] =>
         \/ mcp[r].pc = "idle" /\ mcp'[r].pc = "handling"
         \/ C16_Handled(r) /\ mcp'[r].pc = "done" /\ als'[r] = NoStore
    /\ (mcp[r].pc = "idle" /\ mcp'[r].pc # "idle") => mcp'[r].pc = "handling"
    /\ mcp[r].pc # "idle" => mcp'[r].auth = mcp[r].auth
C16_CredentialExtraction ==
  /\ [](C16_Extracted /\ C16_FailsOnlyOnCall)
  /\ [][C16_ExtractedOnce]_vars

\* Under the context-bound provider one request without an Authorization
\* header completed without a downstream call, another such request failed
\* with CredentialUnavailable when headers were resolved.
C16_Witness ==
  /\ provider = "bearer"
  /\ \E r, q \in Reqs :
       /\ mcp[r].auth = undefined /\ mcp[r].outcome = Succeeded(NoResponse)
       /\ mcp[q].auth = undefined /\ mcp[q].gets = 1
       /\ mcp[q].outcome = Failed("CredentialUnavailable", NoResponse)

\* C17 (bearer header round trip): under the context-bound provider a
\* request that arrived with the header Authorization: Bearer T, T not
\* empty, gets from getAuthHeaders() a map whose only entry is Authorization
\* with the value of the inbound header.
C17_BearerRoundTrip ==
  provider = "bearer" =>
    \A r \in Reqs : \A T \in Tokens :
      (mcp[r].auth = sBearerSp \o T /\ mcp[r].gets > 0) =>
        /\ mcp[r].res.ok
        /\ Cardinality(mcp[r].res.headers) = 1
        /\ \A entry \in mcp[r].res.headers :
             entry[1] = sAuthorization /\ entry[2] = mcp[r].auth

\* A request that arrived with Bearer t1 has resolved its headers and sent
\* its downstream call with them.
C17_Witness ==
  /\ provider = "bearer"
  /\ \E r \in Reqs :
       /\ mcp[r].auth = sBearerSp \o T1
       /\ mcp[r].res.ok
       /\ mcp[r].sent = <<{<<sAuthorization, sBearerSp \o T1>>}>>

\* C18 (providers never write the context): a step in which getAuthHeaders
\* or handleAuthError of a shipped provider ran for a request, with a result
\* or with a failure, leaves the context of every other request as it was
\* and the request's own context as it was until its handling ends; so a
\* request being handled always has the context it was given at reception;
\* and a further getAuthHeaders call within a request returns what the
\* first returned.
C18_ProviderRan(r) ==
  \/ mcp'[r].gets # mcp[r].gets
  \/ mcp'[r].hae # mcp[r].hae
  \/ mcp'[r].probe # mcp[r].probe /\ mcp'[r].probe # NoResult
C18_ContextAsGiven ==
  \A r \in C15_InFlight : als[r] = OwnContext(r)
C18_SameHeaders ==
  \A r \in Reqs :
    (mcp[r].probe # NoResult /\ mcp[r].gets > 0 /\ AddedEntry \notin mcp[r].res.headers) =>
      mcp[r].probe = mcp[r].res
C18_Frame ==
  /\ \A r \in Reqs :
       C18_ProviderRan(r) =>
         /\ \A q \in Reqs \ {r} : als'[q] = als[q]
         /\ als'[r] = als[r] \/ (mcp'[r].pc = "done" /\ als'[r] = NoStore)
  /\ outside' # outside => als' = als
C18_ProvidersNeverWriteContext ==
  /\ [](C18_ContextAsGiven /\ C18_SameHeaders)
  /\ [][C18_Frame]_vars

\* Under the context-bound provider a request holding a token has asked for
\* headers twice with the same result while another request, whose call was
\* rejected, has had handleAuthError run.
C18_Witness ==
  /\ provider = "bearer"
  /\ \E r, q \in Reqs :
       /\ r # q
       /\ mcp[r].pc = "awaiting" /\ mcp[r].res.ok /\ mcp[r].probe = mcp[r].res
       /\ als[r] = Context(r, T1)
       /\ mcp[q].hae = <<FALSE>>

\* C19 (static provider): getAuthHeaders() of the static provider returns,
\* inside a request context or outside any, a map equal to the headers
\* given at construction (none by default) and never fails; the headers the
\* provider holds never change, in particular not when a caller adds an
\* entry to a map it got, so a later call still returns the constructor
\* headers.
C19_AsConstructed ==
  /\ staticHeaders \in StaticHeaderChoices
  /\ \A r \in Reqs :
       /\ mcp[r].gets > 0 =>
            (mcp[r].res.ok /\ mcp[r].res.headers \ {AddedEntry} = staticHeaders)
       /\ mcp[r].probe # NoResult => mcp[r].probe = Ok(staticHeaders)
  /\ outside.called => outside.res = Ok(staticHeaders)
C19_StaticProvider ==
  /\ [](provider = "static" => C19_AsConstructed)
  /\ [][provider = "static" => staticHeaders' = staticHeaders]_vars

\* A caller has added an entry to the map it got, and calls made after that,
\* within the request and outside any, returned the constructor headers.
C19_Witness ==
  /\ provider = "static"
  /\ staticHeaders = {<<sXApiKey, T1>>}
  /\ outside.called
  /\ \E r \in Reqs :
       /\ AddedEntry \in mcp[r].res.headers
       /\ mcp[r].probe = Ok({<<sXApiKey, T1>>})

====
